---- MODULE Spec2Model ----
(***************************************************************************)
(* Terminal session (src/src/tty.rs), keystroke helpers (src/src/lib.rs)   *)
(* and the Password buffer (src/src/tty/password.rs).                      *)
(*                                                                         *)
(* A termios value is a record of four flag words, each modelled as the    *)
(* set of the bits that are set in it, and the two control characters     *)
(* VMIN and VTIME.  `x &= !m` is x \ m and `x |= m` is x \cup m.           *)
(***************************************************************************)
EXTENDS Integers, Sequences, FiniteSets, TLC

VARIABLES t, dev, saved, pc, log, local, ret, buf, index, input, ncalls, before,
          arg, proc

vars == <<t, dev, saved, pc, log, local, ret, buf, index, input, ncalls, before,
          arg, proc>>

(* ------------------------------ bounds --------------------------------- *)

\* Top-level calls made on the session and the buffer in one behaviour.
MaxCalls == 3

\* Length of the Password buffer.  The program's value is 512
\* (src/src/tty/password.rs:7); the model runs the same code on a short buffer.
PASSWORD_BUFFER_LEN == 4

(* ------------------------------ termios -------------------------------- *)

\* Bits of c_iflag the code names (tty.rs:11) and one it never touches.
IFLAGS == {"IXON", "ICRNL", "BRKINT", "INPCK", "ISTRIP", "INLCR", "IUTF8", "IGNBRK"}
\* Bits of c_oflag: OPOST (tty.rs:13) and one the code never touches.
OFLAGS == {"OPOST", "ONLCR"}
\* Bits of c_cflag: the two bits of the CSIZE field and one other bit.
CFLAGS == {"CSIZE0", "CSIZE1", "CREAD"}
\* Bits of c_lflag the code names (tty.rs:15) and one it never touches.
LFLAGS == {"ECHO", "ECHONL", "ICANON", "IEXTEN", "ISIG", "ECHOE"}

\* libc::CS8 is the value 0x30: both bits of the character-size field.
CS8 == {"CSIZE0", "CSIZE1"}

Termios == [iflag : SUBSET IFLAGS, oflag : SUBSET OFLAGS,
            cflag : SUBSET CFLAGS, lflag : SUBSET LFLAGS,
            vmin : 0..255, vtime : 0..255]

\* The SetAction enum.
SetAction == {"TCSAFLUSH", "TCSANOW", "TCSADRAIN"}

\* The attributes a terminal can have when the session is constructed:
\* a login shell's line discipline, and a line left without echo, flow
\* control or post-processing, in 7-bit mode with a read timeout.
CookedTty == [iflag |-> {"IXON", "ICRNL", "BRKINT", "IUTF8"},
              oflag |-> {"OPOST", "ONLCR"},
              cflag |-> {"CSIZE0", "CSIZE1", "CREAD"},
              lflag |-> {"ECHO", "ICANON", "IEXTEN", "ISIG", "ECHOE"},
              vmin  |-> 1, vtime |-> 0]

BareTty == [iflag |-> {"IGNBRK", "ISTRIP", "INLCR"},
            oflag |-> {},
            cflag |-> {"CSIZE1", "CREAD"},
            lflag |-> {"ECHONL"},
            vmin  |-> 0, vtime |-> 5]

Snapshots == {CookedTty, BareTty}

\* A wider family of attributes a terminal can be found with: every
\* combination of the two lines' input, output, control and local flags and
\* of no flags at all, with either read timing.
TtyStates ==
    {[iflag |-> i, oflag |-> o, cflag |-> c, lflag |-> l,
      vmin |-> tm.vmin, vtime |-> tm.vtime] :
        i \in {CookedTty.iflag, BareTty.iflag},
        o \in {CookedTty.oflag, BareTty.oflag},
        c \in {CookedTty.cflag, BareTty.cflag},
        l \in {CookedTty.lflag, BareTty.lflag, {}},
        tm \in Snapshots}

(* -------------------------- Mode Transforms ---------------------------- *)

raw_mode(tm) ==
    [tm EXCEPT !.iflag = @ \ {"IXON", "ICRNL", "BRKINT", "INPCK", "ISTRIP", "INLCR"},
               !.lflag = @ \ {"ECHO", "ICANON", "IEXTEN", "ISIG"},
               !.oflag = @ \ {"OPOST"},
               !.cflag = @ \ CS8]

\* A cooked mode that puts back every flag raw_mode clears.
cooked_mode_restoring(tm) ==
    [tm EXCEPT !.iflag = @ \cup {"IUTF8", "IXON", "ICRNL", "BRKINT"},
               !.lflag = @ \cup {"ECHO", "ECHONL", "ICANON", "IEXTEN", "ISIG"},
               !.oflag = @ \cup {"OPOST"},
               !.cflag = @ \cup CS8]

cooked_mode(tm) ==
    [tm EXCEPT !.iflag = @ \cup {"IUTF8"},
               !.lflag = @ \cup {"ECHO", "ECHONL", "ICANON"}]

disable_output_processing(tm) == [tm EXCEPT !.oflag = @ \ {"OPOST"}]

enable_output_processing(tm) == [tm EXCEPT !.oflag = @ \cup {"OPOST"}]

enable_echo(tm) == [tm EXCEPT !.lflag = @ \cup {"ECHO", "ECHONL"}]

\* A disable_echo that clears the echo flag alone.
disable_echo_only(tm) == [tm EXCEPT !.lflag = @ \ {"ECHO"}]

disable_echo(tm) == [tm EXCEPT !.lflag = @ \ {"ECHO", "ECHONL"}]

\* A password mode that leaves canonical mode as it finds it.
password_mode_keep_canon(tm) ==
    [tm EXCEPT !.lflag = (@ \ {"ECHO"}) \cup {"ECHONL"}]

password_mode(tm) ==
    [tm EXCEPT !.lflag = (@ \ {"ECHO"}) \cup {"ECHONL", "ICANON"}]

disable_flow_control(tm) == [tm EXCEPT !.iflag = @ \ {"IXON"}]

enable_flow_control(tm) == [tm EXCEPT !.iflag = @ \cup {"IXON"}]

\* An input_timeout that narrows the tenths to 8 bits without the upper
\* clamp.
input_timeout_wrapping(tm, vtime) ==
    LET tenths == vtime \div 100
        t8 == IF tenths = 0 THEN 1 ELSE tenths % 256
    IN [tm EXCEPT !.vmin = 0, !.vtime = t8]

\* vtime is the Duration in milliseconds.
input_timeout(tm, vtime) ==
    LET tenths == vtime \div 100
        t8 == IF tenths = 0 THEN 1
              ELSE IF tenths \in 1..255 THEN tenths % 256
              ELSE 255
    IN [tm EXCEPT !.vmin = 0, !.vtime = t8]

disable_input_timeout(tm) == [tm EXCEPT !.vmin = 1, !.vtime = 0]

\* Durations (ms) passed to input_timeout.
Durations == {0, 99, 100, 1500, 25500, 25600, 50000}

\* Closures a caller hands to with_termios: each edits the termios it is
\* given in place.
Closures == {"set_echoe_off", "clear_cread", "vmin2", "all_lflags"}

ApplyClosure(f, tm) ==
    CASE f = "set_echoe_off" -> [tm EXCEPT !.lflag = @ \ {"ECHOE"}]
      [] f = "clear_cread"   -> [tm EXCEPT !.cflag = @ \ {"CREAD"}]
      [] f = "vmin2"         -> [tm EXCEPT !.vmin = 2, !.vtime = 0]
      [] f = "all_lflags"    -> [tm EXCEPT !.lflag = LFLAGS]


(* --------------------------- return values ----------------------------- *)

\* io::Result values.  An Err carries the call that produced the OS error.
\* An Ok carries its value as a sequence of bytes (<<>> for the unit
\* value).
Ok(v) == [kind |-> "Ok", site |-> "none", val |-> v]
Err(site) == [kind |-> "Err", site |-> site, val |-> <<>>]
NoValue == [kind |-> "None", site |-> "none", val |-> <<>>]

\* What a top-level call returned: the function and its result.
Returned(f, r) == [fn |-> f, kind |-> r.kind, site |-> r.site, val |-> r.val]
Running(f) == Returned(f, NoValue)

\* One call made on the session or its streams, and whether it succeeded.
Entry(f, ok) == [fn |-> f, ok |-> ok]

(* -------------------------- Attribute Accessor ------------------------- *)

\* tcsetattr on the output descriptor: the device takes the attributes when
\* the call succeeds and keeps its own when it fails.  Result: the device.
set_termios(d, action, tm, ok) == IF ok THEN tm ELSE d

\* set committing the original copy self.t.0.
set_original(d, action, tt, ok) == set_termios(d, action, tt[1], ok)

\* Term::set: commits the working copy self.t.1.
set(d, action, tt, ok) == set_termios(d, action, tt[2], ok)

\* reset without the restoring assignment.
reset_keep_working(tt) == tt

\* Term::reset, first statement: self.t.1 = self.t.0.clone().
reset(tt) == <<tt[1], tt[1]>>

\* No Term has been constructed.
NoSession == <<>>

\* Term::save / Term::new: both copies become what tcgetattr returned.
save(d) == <<d, d>>

\* with_termios handing the closure &mut self.t.0.
with_termios_original(tt, newWorking) == <<newWorking, tt[2]>>

\* Term::with_termios: the closure gets &mut self.t.1.
with_termios(tt, newWorking) == <<tt[1], newWorking>>

(* ------------------------------ Keystroke ------------------------------ *)

\* A Keystroke that still holds the bytes of an earlier read.
KeystrokeStale == <<27, 91, 65, 0>>

\* Keystroke::new
KeystrokeNew == <<0, 0, 0, 0>>

\* What one read into a 4-byte slice can deliver on a terminal where any
\* bytes arrive: the first n of four bytes, each position drawn from NUL,
\* ctrl-c, carriage return, escape, 'A', '[' and 0xD8.
KeystrokeReads ==
    {SubSeq(<<b1, b2, b3, b4>>, 1, n) :
        b1 \in {0, 3, 13, 27, 65}, b2 \in {0, 65, 91, 216},
        b3 \in {0, 3, 27, 216}, b4 \in {0, 65}, n \in 0..4}

is_empty(k) == k = <<0, 0, 0, 0>>

is_ctrl_c(k) == k = <<3, 0, 0, 0>>

\* An is_esc that looks at the first byte only.
is_esc_lead(k) == k[1] = 27

is_esc(k) == k = <<27, 0, 0, 0>>

is_esc_code(k) == k[1] = 27 /\ k[2] = 91

is_enter(k) == k[1] = 13

\* The byte orders a target can have.
Endians == {"little", "big"}

\* u32::from_ne_bytes on a target of byte order e: the four bytes of the
\* integer, most significant first.
from_ne_bytes(k, e) ==
    IF e = "little" THEN <<k[4], k[3], k[2], k[1]>> ELSE k

\* char::from_u32 on the integer with bytes w (most significant first):
\* Some(c) as <<c>> when it is below 0x110000 and not a surrogate
\* (0xD800..0xDFFF), None as <<>>.
from_u32(w) ==
    IF w[1] = 0 /\ w[2] <= 16 /\ ~(w[2] = 0 /\ w[3] \in 216..223)
    THEN <<w[2] * 65536 + w[3] * 256 + w[4]>>
    ELSE <<>>

\* Keystroke::as_char on a target of byte order e.
as_char(k, e) == from_u32(from_ne_bytes(k, e))

\* The outcome of one Read::read call: an error, or the bytes delivered.
ReadErr == [ok |-> FALSE, data |-> <<>>]
ReadOk(data) == [ok |-> TRUE, data |-> data]

\* What one read of the input stream into a 4-byte slice can deliver.
KeyInputs == {<<>>, <<97>>, <<3>>, <<27, 91, 65>>}

KeyOutcomes == {ReadErr} \cup {ReadOk(k) : k \in KeyInputs}

\* Read::read into the slice: the first Len(data) bytes are overwritten.
ReadInto(slice, data) ==
    [i \in 1..Len(slice) |-> IF i <= Len(data) THEN data[i] ELSE slice[i]]

\* get_raw_keystroke: r is the outcome of the one read.
get_raw_keystroke(r) ==
    IF ~r.ok THEN Err("read") ELSE Ok(ReadInto(KeystrokeNew, r.data))

(* ------------------------------ Password ------------------------------- *)

\* Byte values a source delivers: NUL, newline and a letter.
Bytes == {0, 10, 97}

\* Password::new
PasswordNew == [i \in 1..PASSWORD_BUFFER_LEN |-> 0]

\* Sequences over S of length exactly n / at most n.
RECURSIVE SeqsOfLen(_, _)
SeqsOfLen(S, n) ==
    IF n = 0 THEN {<<>>}
    ELSE {Append(s, b) : s \in SeqsOfLen(S, n - 1), b \in S}

SeqsUpTo(S, n) == UNION {SeqsOfLen(S, k) : k \in 0..n}

\* CStr::from_bytes_until_nul(..).to_bytes(): the bytes before the first NUL;
\* Panic when there is none (the expect in as_cstr).
Panic == <<-1>>

NulPositions(b) == {i \in 1..Len(b) : b[i] = 0}

Min(S) == CHOOSE x \in S : \A y \in S : x <= y

as_cstr(b) ==
    IF NulPositions(b) = {} THEN Panic
    ELSE SubSeq(b, 1, Min(NulPositions(b)) - 1)

as_bytes(b) == as_cstr(b)

\* read_line without the check that truncates large inputs: the loop goes
\* on when the usable capacity is full.
read_line_iter_no_truncate(b, idx, r) ==
    IF ~r.ok THEN [buf |-> b, index |-> idx, next |-> "err"]
    ELSE
      LET n == Len(r.data)
          b1 == [i \in 1..Len(b) |->
                   IF i > idx /\ i <= idx + n THEN r.data[i - idx] ELSE b[i]]
          idx1 == idx + n
      IN IF n = 0 THEN [buf |-> b1, index |-> idx, next |-> "break"]
         ELSE IF b1[idx1] = 10
              THEN [buf |-> [b1 EXCEPT ![idx1] = 0], index |-> idx1, next |-> "break"]
         ELSE [buf |-> b1, index |-> idx1, next |-> "loop"]

\* read_line with the refusing overflow policy: a full buffer without a
\* trailing newline is an error.
read_line_iter_refuse(b, idx, r) ==
    IF ~r.ok THEN [buf |-> b, index |-> idx, next |-> "err"]
    ELSE
      LET n == Len(r.data)
          b1 == [i \in 1..Len(b) |->
                   IF i > idx /\ i <= idx + n THEN r.data[i - idx] ELSE b[i]]
          idx1 == idx + n
      IN IF n = 0 THEN [buf |-> b1, index |-> idx, next |-> "break"]
         ELSE IF b1[idx1] = 10
              THEN [buf |-> [b1 EXCEPT ![idx1] = 0], index |-> idx1, next |-> "break"]
         ELSE IF idx1 >= PASSWORD_BUFFER_LEN - 1
              THEN [buf |-> b1, index |-> idx1, next |-> "err"]
         ELSE [buf |-> b1, index |-> idx1, next |-> "loop"]

\* One iteration of the loop of read_line.  b and idx are self.buf and index
\* (0-based, as in the source); r is the outcome of fd.read on the slice
\* buf[index..PASSWORD_BUFFER_LEN - 1].
\* Result: the buffer, the index, and how the iteration ends
\* ("err": return the error, "break": leave the loop, "loop": iterate).
read_line_iter(b, idx, r) ==
    IF ~r.ok THEN [buf |-> b, index |-> idx, next |-> "err"]
    ELSE
      LET n == Len(r.data)
          b1 == [i \in 1..Len(b) |->
                   IF i > idx /\ i <= idx + n THEN r.data[i - idx] ELSE b[i]]
          idx1 == idx + n
      IN IF n = 0 THEN [buf |-> b1, index |-> idx, next |-> "break"]
         ELSE IF b1[idx1] = 10
              THEN [buf |-> [b1 EXCEPT ![idx1] = 0], index |-> idx1, next |-> "break"]
         ELSE IF idx1 >= PASSWORD_BUFFER_LEN - 1
              THEN [buf |-> b1, index |-> idx1, next |-> "break"]
         ELSE [buf |-> b1, index |-> idx1, next |-> "loop"]

\* The slice taken to the end of the buffer: &mut self.buf[index..].
read_slice_len_whole(idx) == PASSWORD_BUFFER_LEN - idx

\* Length of the slice read_line hands to fd.read:
\* &mut self.buf[index..PASSWORD_BUFFER_LEN - 1].
read_slice_len(idx) == PASSWORD_BUFFER_LEN - 1 - idx

\* What fd.read may return for a slice of the given length.
ReadOutcomes(sliceLen) == {ReadErr} \cup {ReadOk(s) : s \in SeqsUpTo(Bytes, sliceLen)}

\* A drop that clears the secret only: the bytes in front of the first NUL.
drop_secret_only(b) ==
    [i \in 1..Len(b) |->
        IF NulPositions(b) # {} /\ i > Min(NulPositions(b)) THEN b[i] ELSE 0]

\* Drop for Password: self.buf.fill(0).
drop(b) == [i \in 1..Len(b) |-> 0]

\* Password::as_mut_slice: self.buf.as_mut_slice(), the slice the caller
\* gets.
as_mut_slice(b) == b

\* The buffer after the caller has written data through the slice sl of it.
WriteThrough(b, sl, data) ==
    ReadInto(sl, data) \o SubSeq(b, Len(sl) + 1, Len(b))


(* ------------------------------- process ------------------------------- *)
(* Strings are sequences of one-character strings.  An environment maps a  *)
(* variable to <<>> (not set) or <<value>>.                                *)

Digits == <<"0", "1", "2", "3", "4", "5", "6", "7", "8", "9">>

DigitValue(c) == (CHOOSE i \in 1..10 : Digits[i] = c) - 1

IsDigit(c) == \E i \in 1..10 : Digits[i] = c

\* Uid::to_string: the decimal digits of n.
RECURSIVE to_string(_)
to_string(n) ==
    IF n < 10 THEN <<Digits[n + 1]>>
    ELSE Append(to_string(n \div 10), Digits[(n % 10) + 1])

\* The value of a string of digits.
RECURSIVE DecimalValue(_)
DecimalValue(s) ==
    IF s = <<>> THEN 0
    ELSE 10 * DecimalValue(SubSeq(s, 1, Len(s) - 1)) + DigitValue(s[Len(s)])

\* The digits of u32::MAX, 4294967295.
U32MaxDigits == <<"4", "2", "9", "4", "9", "6", "7", "2", "9", "5">>

\* A string of digits without its leading zeros.
RECURSIVE StripZeros(_)
StripZeros(s) ==
    IF s # <<>> /\ s[1] = "0" THEN StripZeros(Tail(s)) ELSE s

\* Digit strings of the same length: a is greater than b.
RECURSIVE DigitsGreater(_, _)
DigitsGreater(a, b) ==
    IF a = <<>> THEN FALSE
    ELSE IF DigitValue(a[1]) # DigitValue(b[1])
         THEN DigitValue(a[1]) > DigitValue(b[1])
    ELSE DigitsGreater(Tail(a), Tail(b))

\* The number written by the digits s does not fit a u32.
OverflowsU32(s) ==
    LET d == StripZeros(s)
    IN \/ Len(d) > Len(U32MaxDigits)
       \/ Len(d) = Len(U32MaxDigits) /\ DigitsGreater(d, U32MaxDigits)

\* str::parse::<u32>: an optional "+", then one or more digits, no overflow.
\* Result: <<>> for an Err, <<n>> for Ok(n).
parse_u32(s) ==
    LET body == IF s # <<>> /\ s[1] = "+" THEN Tail(s) ELSE s
    IN IF body = <<>> THEN <<>>
       ELSE IF \E i \in 1..Len(body) : ~IsDigit(body[i]) THEN <<>>
       ELSE IF OverflowsU32(body) THEN <<>>
       ELSE <<DecimalValue(body)>>

\* Uid::is_root
is_root(euid) == euid = 0

\* Effective user ids a process starts with.
Euids == {0, 1000}

\* What DOAS_USER holds when the process starts.
UserValues == {<<>>, <<<<"a", "l">>>>}

\* What DOAS_UID holds when the process starts: not set, ids, and strings
\* that are no u32.
UidValues ==
    {<<>>, <<<<"1", "0", "0", "0">>>>, <<<<"0">>>>, <<<<"+", "7">>>>, <<<<>>>>,
     <<<<"x", "1">>>>, <<<<"-", "1">>>>,
     <<<<"4", "2", "9", "4", "9", "6", "7", "2", "9", "6">>>>}

\* Argument vectors (args_os): the program name and its arguments.
Argvs == {<<"prog">>, <<"./prog", "-v", "file">>}

\* The path std::env::current_exe returns.
ExePath == "/usr/bin/prog"

Processes ==
    {[euid |-> e, env |-> [DOAS_USER |-> u, DOAS_UID |-> i], argv |-> a,
      execd |-> <<>>] : e \in Euids, u \in UserValues, i \in UidValues, a \in Argvs}

\* The process of a program that only uses the session.
PlainProcess ==
    [euid |-> 1000, env |-> [DOAS_USER |-> <<>>, DOAS_UID |-> <<>>],
     argv |-> <<"prog">>, execd |-> <<>>]

\* An argument vector without the original program name.
doas_args_tail(executable, cli_args) == <<executable>> \o Tail(cli_args)

\* doas(): the argument vector handed to execvp.
doas_args(executable, cli_args) == <<executable>> \o cli_args


(* ------------------------------- state --------------------------------- *)
(* t       Term.t: <<original, working copy>>                              *)
(* dev     the attributes of the terminal device behind fd_out             *)
(* saved   what tcgetattr returned at the latest successful new / save     *)
(* pc      where the caller is: "idle" between calls, or a position inside *)
(*         keystroke, prompt_for_password or read_line                     *)
(* log     the calls the current (or latest) top-level call has made on    *)
(*         the session and its streams, in order                           *)
(* local   the local `keystroke` of keystroke(): the read's result         *)
(* ret     what the latest top-level call returned                         *)
(* buf     Password.buf                                                    *)
(* index   the local `index` of read_line                                  *)
(* input   the bytes the source has delivered to the current read_line     *)
(* ncalls  number of top-level calls made                                  *)
(* before  whether the device (.dev) and the working copy (.work) differed *)
(*         from the original snapshot when the latest top-level call began *)
(* arg     the argument of the latest top-level call, where it has one     *)
(*         that is a number: the Duration (ms) given to input_timeout      *)
(* proc    the process: its effective uid, environment, argument vector    *)
(*         and executable, and the exec call it has made                   *)
(***************************************************************************)

TypeOK ==
    /\ t = NoSession \/ t \in Termios \X Termios
    /\ (pc # "unbound" => t # NoSession)
    /\ dev \in Termios
    /\ saved \in Termios
    /\ pc \in {"idle", "ks_read", "ks_reset", "pw_write", "pw_flush",
               "pw_read", "pw_reset", "rl_read",
               "drop_cfence", "drop_fence", "drop_free",
               "unbound", "doas_exe", "doas_exec", "replaced", "panicked"}
    /\ index \in 0..(PASSWORD_BUFFER_LEN - 1)
    /\ Len(buf) = PASSWORD_BUFFER_LEN
    /\ ncalls \in 0..MaxCalls
    /\ before \in [dev : BOOLEAN, work : BOOLEAN]

\* Term::new succeeded on a terminal whose attributes are d.
Init ==
    \E d \in Snapshots :
        /\ t = save(d)
        /\ dev = d
        /\ saved = d
        /\ pc = "idle"
        /\ log = <<>>
        /\ local = NoValue
        /\ ret = Returned("new", Ok(<<>>))
        /\ buf = PasswordNew
        /\ index = 0
        /\ input = <<>>
        /\ ncalls = 0
        /\ before = [dev |-> FALSE, work |-> FALSE]
        /\ arg = <<>>
        /\ proc = PlainProcess

\* A top-level call starts: the caller is between calls.
CanCall == pc = "idle" /\ ncalls < MaxCalls

Called ==
    /\ ncalls' = ncalls + 1
    /\ before' = [dev |-> dev # t[1], work |-> t[2] # t[1]]
    /\ proc' = proc

CallVars == <<ncalls, before, arg, proc>>

PwVars == <<buf, index, input>>

\* A Mode Transform that also commits the working copy it leaves.
TransformCommitting(name, newWorking) ==
    /\ CanCall
    /\ t' = with_termios(t, newWorking)
    /\ dev' = newWorking
    /\ log' = <<Entry(name, TRUE)>>
    /\ ret' = Returned(name, Ok(<<>>))
    /\ Called
    /\ arg' = <<>>
    /\ UNCHANGED <<saved, pc, local, PwVars>>

\* A Mode Transform called on the session: name is the method, newWorking
\* the working copy its closure leaves, a the argument.  Returns &mut Self.
TransformArg(name, newWorking, a) ==
    /\ CanCall
    /\ t' = with_termios(t, newWorking)
    /\ log' = <<Entry(name, TRUE)>>
    /\ ret' = Returned(name, Ok(<<>>))
    /\ Called
    /\ arg' = a
    /\ UNCHANGED <<dev, saved, pc, local, PwVars>>

\* A Mode Transform without an argument.
Transform(name, newWorking) == TransformArg(name, newWorking, <<>>)

WithTermios == \E f \in Closures : Transform("with_termios", ApplyClosure(f, t[2]))

RawMode == Transform("raw_mode", raw_mode(t[2]))

CookedMode == Transform("cooked_mode", cooked_mode(t[2]))

DisableOutputProcessing ==
    Transform("disable_output_processing", disable_output_processing(t[2]))

EnableOutputProcessing ==
    Transform("enable_output_processing", enable_output_processing(t[2]))

EnableEcho == Transform("enable_echo", enable_echo(t[2]))

DisableEcho == Transform("disable_echo", disable_echo(t[2]))

PasswordMode == Transform("password_mode", password_mode(t[2]))

DisableFlowControl == Transform("disable_flow_control", disable_flow_control(t[2]))

EnableFlowControl == Transform("enable_flow_control", enable_flow_control(t[2]))

InputTimeout ==
    \E d \in Durations :
        TransformArg("input_timeout", input_timeout(t[2], d), <<d>>)

DisableInputTimeout == Transform("disable_input_timeout", disable_input_timeout(t[2]))

\* Term::set(action)
Set ==
    /\ CanCall
    /\ \E action \in SetAction, ok \in BOOLEAN :
          /\ dev' = set(dev, action, t, ok)
          /\ log' = <<Entry("set", ok)>>
          /\ ret' = Returned("set", IF ok THEN Ok(<<>>) ELSE Err("set"))
    /\ Called
    /\ arg' = <<>>
    /\ UNCHANGED <<t, saved, pc, local, PwVars>>

\* Term::reset(action)
Reset ==
    /\ CanCall
    /\ \E action \in SetAction, ok \in BOOLEAN :
          /\ t' = reset(t)
          /\ dev' = set(dev, action, t', ok)
          /\ log' = <<Entry("reset", ok)>>
          /\ ret' = Returned("reset", IF ok THEN Ok(<<>>) ELSE Err("reset"))
    /\ Called
    /\ arg' = <<>>
    /\ UNCHANGED <<saved, pc, local, PwVars>>

\* A save that re-captures the original and keeps the working copy.
SaveOriginalOnly ==
    /\ CanCall
    /\ \E ok \in BOOLEAN :
          /\ t' = IF ok THEN <<dev, t[2]>> ELSE t
          /\ saved' = IF ok THEN dev ELSE saved
          /\ log' = <<Entry("save", ok)>>
          /\ ret' = Returned("save", IF ok THEN Ok(<<>>) ELSE Err("tcgetattr"))
    /\ Called
    /\ arg' = <<>>
    /\ UNCHANGED <<dev, pc, local, PwVars>>

\* Term::save(): tcgetattr succeeds or fails.
Save ==
    /\ CanCall
    /\ \E ok \in BOOLEAN :
          /\ t' = IF ok THEN save(dev) ELSE t
          /\ saved' = IF ok THEN dev ELSE saved
          /\ log' = <<Entry("save", ok)>>
          /\ ret' = Returned("save", IF ok THEN Ok(<<>>) ELSE Err("tcgetattr"))
    /\ Called
    /\ arg' = <<>>
    /\ UNCHANGED <<dev, pc, local, PwVars>>

\* The program has a terminal with attributes among TtyStates on its output
\* and has not constructed its Term.
InitSession ==
    \E d \in TtyStates :
        /\ t = NoSession
        /\ dev = d
        /\ saved = d
        /\ pc = "unbound"
        /\ log = <<>>
        /\ local = NoValue
        /\ ret = NoValue
        /\ buf = PasswordNew
        /\ index = 0
        /\ input = <<>>
        /\ ncalls = 0
        /\ before = [dev |-> FALSE, work |-> FALSE]
        /\ arg = <<>>
        /\ proc = PlainProcess

\* Term::new(input, output): Err when tcgetattr fails on the output, and
\* then no Term exists; otherwise a Term holding two copies of what
\* tcgetattr returned.
New ==
    /\ pc = "unbound"
    /\ \E ok \in BOOLEAN :
          /\ t' = IF ok THEN save(dev) ELSE NoSession
          /\ saved' = IF ok THEN dev ELSE saved
          /\ pc' = IF ok THEN "idle" ELSE "unbound"
          /\ log' = <<Entry("new", ok)>>
          /\ ret' = Returned("new", IF ok THEN Ok(<<>>) ELSE Err("tcgetattr"))
    /\ UNCHANGED <<dev, local, PwVars, CallVars>>

\* Term::is_a_tty(): true iff tcgetattr succeeds.
IsATty ==
    /\ CanCall
    /\ \E ok \in BOOLEAN :
          /\ log' = <<Entry("is_a_tty", ok)>>
          /\ ret' = Returned("is_a_tty", Ok(IF ok THEN <<1>> ELSE <<0>>))
    /\ Called
    /\ arg' = <<>>
    /\ UNCHANGED <<t, dev, saved, pc, local, PwVars>>

\* get_raw_keystroke(term), called by the caller itself.
GetRawKeystroke ==
    /\ CanCall
    /\ \E r \in KeyOutcomes :
          /\ log' = <<Entry("read", r.ok)>>
          /\ ret' = Returned("get_raw_keystroke", get_raw_keystroke(r))
    /\ Called
    /\ arg' = <<>>
    /\ UNCHANGED <<t, dev, saved, pc, local, PwVars>>

\* get_raw_keystroke(term) on a terminal that delivers any bytes: the
\* caller keeps the result.
GetRawKeystrokeFrom ==
    /\ CanCall
    /\ \E r \in {ReadErr} \cup {ReadOk(k) : k \in KeystrokeReads} :
          /\ log' = <<Entry("read", r.ok)>>
          /\ ret' = Returned("get_raw_keystroke", get_raw_keystroke(r))
          /\ local' = get_raw_keystroke(r)
          /\ input' = r.data
    /\ Called
    /\ arg' = <<>>
    /\ UNCHANGED <<t, dev, saved, pc, buf, index>>

\* The caller asks the Keystroke it holds a yes/no question.
Classify(name, answer) ==
    /\ CanCall
    /\ local.kind = "Ok"
    /\ log' = <<Entry(name, TRUE)>>
    /\ ret' = Returned(name, Ok(IF answer THEN <<1>> ELSE <<0>>))
    /\ Called
    /\ arg' = local.val
    /\ UNCHANGED <<t, dev, saved, pc, local, PwVars>>

IsEmpty == Classify("is_empty", is_empty(local.val))

IsCtrlC == Classify("is_ctrl_c", is_ctrl_c(local.val))

IsEsc == Classify("is_esc", is_esc(local.val))

IsEscCode == Classify("is_esc_code", is_esc_code(local.val))

IsEnter == Classify("is_enter", is_enter(local.val))

\* The caller asks the Keystroke it holds for its char, on a target of either
\* byte order.
AsChar ==
    /\ CanCall
    /\ local.kind = "Ok"
    /\ \E e \in Endians :
          /\ log' = <<Entry(e, TRUE)>>
          /\ ret' = Returned("as_char", Ok(as_char(local.val, e)))
    /\ Called
    /\ arg' = local.val
    /\ UNCHANGED <<t, dev, saved, pc, local, PwVars>>

(* keystroke(term): lib.rs 66-71 *)

\* term.raw_mode().set(SetAction::TCSAFLUSH)?
KsCommit ==
    /\ CanCall
    /\ \E ok \in BOOLEAN :
          /\ t' = with_termios(t, raw_mode(t[2]))
          /\ dev' = set(dev, "TCSAFLUSH", t', ok)
          /\ log' = <<Entry("raw_mode", TRUE), Entry("set", ok)>>
          /\ pc' = IF ok THEN "ks_read" ELSE "idle"
          /\ ret' = IF ok THEN Running("keystroke")
                          ELSE Returned("keystroke", Err("set"))
    /\ Called
    /\ arg' = <<>>
    /\ UNCHANGED <<saved, local, PwVars>>

\* `let keystroke = get_raw_keystroke(term)?;`: a read error returns at once.
KsReadOrReturn ==
    /\ pc = "ks_read"
    /\ \E r \in KeyOutcomes :
          /\ local' = get_raw_keystroke(r)
          /\ log' = Append(log, Entry("read", r.ok))
          /\ pc' = IF r.ok THEN "ks_reset" ELSE "idle"
          /\ ret' = IF r.ok THEN ret ELSE Returned("keystroke", Err("read"))
    /\ UNCHANGED <<t, dev, saved, PwVars, CallVars>>

\* let keystroke = get_raw_keystroke(term);
KsRead ==
    /\ pc = "ks_read"
    /\ \E r \in KeyOutcomes :
          /\ local' = get_raw_keystroke(r)
          /\ log' = Append(log, Entry("read", r.ok))
    /\ pc' = "ks_reset"
    /\ UNCHANGED <<t, dev, saved, ret, PwVars, CallVars>>

\* The value keystroke() returns after its reset: `term.reset(..)?; keystroke`.
keystroke_result(resetOk, readResult) ==
    IF resetOk THEN readResult ELSE Err("reset")

\* term.reset(SetAction::TCSANOW)?; keystroke
KsReset ==
    /\ pc = "ks_reset"
    /\ \E ok \in BOOLEAN :
          /\ t' = reset(t)
          /\ dev' = set(dev, "TCSANOW", t', ok)
          /\ log' = Append(log, Entry("reset", ok))
          /\ ret' = Returned("keystroke", keystroke_result(ok, local))
    /\ pc' = "idle"
    /\ UNCHANGED <<saved, local, PwVars, CallVars>>


(* Term::prompt_for_password(prompt): tty.rs 295-303 *)

\* self.password_mode().set(SetAction::TCSAFLUSH)?; let mut pw = Password::new();
PwCommit ==
    /\ CanCall
    /\ \E ok \in BOOLEAN :
          /\ t' = with_termios(t, password_mode(t[2]))
          /\ dev' = set(dev, "TCSAFLUSH", t', ok)
          /\ log' = <<Entry("password_mode", TRUE), Entry("set", ok)>>
          /\ pc' = IF ok THEN "pw_write" ELSE "idle"
          /\ ret' = IF ok THEN Running("prompt_for_password")
                          ELSE Returned("prompt_for_password", Err("set"))
          /\ buf' = IF ok THEN PasswordNew ELSE buf
    /\ Called
    /\ arg' = <<>>
    /\ UNCHANGED <<saved, local, index, input>>

\* One of the two output statements, `write!(self, "{}: ", prompt)?` and
\* `self.fd_out.flush()?`: on an error the function returns it and pw is
\* dropped.
PwOutput(here, name, next) ==
    /\ pc = here
    /\ \E ok \in BOOLEAN :
          /\ log' = Append(log, Entry(name, ok))
          /\ pc' = IF ok THEN next ELSE "idle"
          /\ ret' = IF ok THEN ret
                          ELSE Returned("prompt_for_password", Err(name))
          /\ buf' = IF ok THEN buf ELSE drop(buf)
    /\ index' = 0
    /\ input' = <<>>
    /\ UNCHANGED <<t, dev, saved, local, CallVars>>

PwWrite == PwOutput("pw_write", "write", "pw_flush")

PwFlush == PwOutput("pw_flush", "flush", "pw_read")

\* pw.read_line(&mut self.fd_in)?: one iteration of its loop.  The locals
\* of read_line are gone when it returns.
PwRead ==
    /\ pc = "pw_read"
    /\ \E r \in ReadOutcomes(read_slice_len(index)) :
          LET it == read_line_iter(buf, index, r) IN
          /\ index' = IF it.next = "loop" THEN it.index ELSE 0
          /\ input' = IF it.next = "loop" THEN input \o r.data ELSE <<>>
          /\ log' = Append(log, Entry("read", r.ok))
          /\ pc' = CASE it.next = "loop"  -> "pw_read"
                     [] it.next = "break" -> "pw_reset"
                     [] it.next = "err"   -> "idle"
          /\ ret' = IF it.next = "err"
                    THEN Returned("prompt_for_password", Err("read"))
                    ELSE ret
          /\ buf' = IF it.next = "err" THEN drop(it.buf) ELSE it.buf
    /\ UNCHANGED <<t, dev, saved, local, CallVars>>

\* self.reset(SetAction::TCSAFLUSH)?; Ok(pw)
PwReset ==
    /\ pc = "pw_reset"
    /\ \E ok \in BOOLEAN :
          /\ t' = reset(t)
          /\ dev' = set(dev, "TCSAFLUSH", t', ok)
          /\ log' = Append(log, Entry("reset", ok))
          /\ ret' = Returned("prompt_for_password",
                             IF ok THEN Ok(<<>>) ELSE Err("reset"))
          /\ buf' = IF ok THEN buf ELSE drop(buf)
    /\ pc' = "idle"
    /\ UNCHANGED <<saved, local, index, input, CallVars>>

(* Password::read_line(fd), called by the caller on its Password: 50-70 *)

\* let mut index = 0;
RlCall ==
    /\ CanCall
    /\ pc' = "rl_read"
    /\ index' = 0
    /\ input' = <<>>
    /\ log' = <<>>
    /\ ret' = Running("read_line")
    /\ Called
    /\ arg' = <<>>
    /\ UNCHANGED <<t, dev, saved, local, buf>>

\* One iteration of the loop.
RlIter ==
    /\ pc = "rl_read"
    /\ \E r \in ReadOutcomes(read_slice_len(index)) :
          LET it == read_line_iter(buf, index, r) IN
          /\ buf' = it.buf
          /\ index' = it.index
          /\ input' = input \o r.data
          /\ log' = Append(log, Entry("read", r.ok))
          /\ pc' = IF it.next = "loop" THEN "rl_read" ELSE "idle"
          /\ ret' = CASE it.next = "loop"  -> ret
                      [] it.next = "break" -> Returned("read_line", Ok(<<>>))
                      [] it.next = "err"   -> Returned("read_line", Err("read"))
    /\ UNCHANGED <<t, dev, saved, local, CallVars>>

Next ==
    \/ WithTermios \/ RawMode \/ CookedMode
    \/ DisableOutputProcessing \/ EnableOutputProcessing
    \/ EnableEcho \/ DisableEcho \/ PasswordMode
    \/ DisableFlowControl \/ EnableFlowControl
    \/ InputTimeout \/ DisableInputTimeout
    \/ Set \/ Reset \/ Save \/ IsATty \/ GetRawKeystroke
    \/ KsCommit \/ KsRead \/ KsReset
    \/ PwCommit \/ PwWrite \/ PwFlush \/ PwRead \/ PwReset

\* A program that uses the session.
Spec == Init /\ [][Next]_vars

(* Drop for Password, when the caller lets go of its Password:         *)
(* password.rs 90-97, then the Box frees the buffer.                   *)

\* self.buf.fill(0);
DropFill ==
    /\ CanCall
    /\ buf' = drop(buf)
    /\ log' = <<Entry("fill", TRUE)>>
    /\ pc' = "drop_cfence"
    /\ ret' = Running("drop")
    /\ Called
    /\ arg' = <<>>
    /\ UNCHANGED <<t, dev, saved, local, index, input>>

\* One of the statements that follow the fill.
DropStep(here, name, next) ==
    /\ pc = here
    /\ log' = Append(log, Entry(name, TRUE))
    /\ pc' = next
    /\ ret' = IF next = "idle" THEN Returned("drop", Ok(<<>>)) ELSE ret
    /\ UNCHANGED <<t, dev, saved, local, PwVars, CallVars>>

\* atomic::compiler_fence(Ordering::SeqCst);
DropCompilerFence == DropStep("drop_cfence", "compiler_fence", "drop_fence")

\* atomic::fence(Ordering::SeqCst);
DropFence == DropStep("drop_fence", "fence", "drop_free")

\* drop returns and the buffer's memory is released.
DropFree == DropStep("drop_free", "dealloc", "idle")

\* The caller writes data through the slice as_mut_slice gives it, as
\* stdin.read(pw.as_mut_slice()) does.
SliceFill ==
    /\ CanCall
    /\ \E data \in SeqsUpTo(Bytes, Len(as_mut_slice(buf))) :
          /\ buf' = WriteThrough(buf, as_mut_slice(buf), data)
          /\ input' = data
    /\ log' = <<Entry("as_mut_slice", TRUE)>>
    /\ ret' = Returned("as_mut_slice", Ok(<<>>))
    /\ Called
    /\ arg' = <<>>
    /\ UNCHANGED <<t, dev, saved, pc, local, index>>

\* A program that constructs its Term and then configures the terminal
\* through it.
NextSession ==
    \/ New
    \/ WithTermios \/ RawMode \/ CookedMode
    \/ DisableOutputProcessing \/ EnableOutputProcessing
    \/ EnableEcho \/ DisableEcho \/ PasswordMode
    \/ DisableFlowControl \/ EnableFlowControl
    \/ InputTimeout \/ DisableInputTimeout
    \/ Set \/ Reset \/ Save \/ IsATty

SpecSession == InitSession /\ [][NextSession]_vars

(* ensure_running_doas(): lib.rs 179-195, and doas(): lib.rs 197-217.   *)

\* A panic of the process at the expect named site.
Panicked(site) == [kind |-> "Panic", site |-> site, val |-> <<>>]

\* What the privileged branch does with the environment env: the three
\* expects, then Ok((user, uid)).
privileged_result(env) ==
    IF env.DOAS_USER = <<>> THEN Panicked("DOAS_USER")
    ELSE IF env.DOAS_UID = <<>> THEN Panicked("DOAS_UID")
    ELSE IF parse_u32(env.DOAS_UID[1]) = <<>> THEN Panicked("parse")
    ELSE Ok(<<env.DOAS_USER[1], parse_u32(env.DOAS_UID[1])[1]>>)

\* The program starts as one of Processes, with its session constructed.
InitDoas ==
    \E d \in Snapshots, p \in Processes :
        /\ t = save(d)
        /\ dev = d
        /\ saved = d
        /\ pc = "idle"
        /\ log = <<>>
        /\ local = NoValue
        /\ ret = Returned("new", Ok(<<>>))
        /\ buf = PasswordNew
        /\ index = 0
        /\ input = <<>>
        /\ ncalls = 0
        /\ before = [dev |-> FALSE, work |-> FALSE]
        /\ arg = <<>>
        /\ proc = p

\* The call, up to the return of the privileged branch or up to set_var on
\* the other.
EnsureRunningDoas ==
    /\ CanCall
    /\ IF is_root(proc.euid)
       THEN /\ ret' = Returned("ensure_running_doas", privileged_result(proc.env))
            /\ pc' = IF privileged_result(proc.env).kind = "Ok"
                     THEN "idle" ELSE "panicked"
            /\ log' = <<Entry("var", privileged_result(proc.env).kind = "Ok")>>
            /\ proc' = proc
       ELSE /\ proc' = [proc EXCEPT !.env.DOAS_UID = <<to_string(proc.euid)>>]
            /\ log' = <<Entry("set_var", TRUE)>>
            /\ pc' = "doas_exe"
            /\ ret' = Running("ensure_running_doas")
    /\ ncalls' = ncalls + 1
    /\ before' = [dev |-> dev # t[1], work |-> t[2] # t[1]]
    /\ arg' = <<>>
    /\ UNCHANGED <<t, dev, saved, local, PwVars>>

\* let current_exe = std::env::current_exe()?;
DoasCurrentExe ==
    /\ pc = "doas_exe"
    /\ \E ok \in BOOLEAN :
          /\ log' = Append(log, Entry("current_exe", ok))
          /\ pc' = IF ok THEN "doas_exec" ELSE "idle"
          /\ ret' = IF ok THEN ret
                         ELSE Returned("ensure_running_doas", Err("current_exe"))
    /\ UNCHANGED <<t, dev, saved, local, PwVars, CallVars>>

\* doas(current_exe, args_os()): execvp replaces the process image, or
\* fails and the expect panics.
DoasExec ==
    /\ pc = "doas_exec"
    /\ \E ok \in BOOLEAN :
          /\ log' = Append(log, Entry("execvp", ok))
          /\ pc' = IF ok THEN "replaced" ELSE "panicked"
          /\ proc' = IF ok
                     THEN [proc EXCEPT !.execd =
                             <<[file |-> "doas",
                                args |-> doas_args(ExePath, proc.argv),
                                env  |-> proc.env]>>]
                     ELSE proc
          /\ ret' = IF ok THEN ret
                         ELSE Returned("ensure_running_doas", Panicked("execvp"))
    /\ UNCHANGED <<t, dev, saved, local, PwVars, ncalls, before, arg>>

\* A program that makes sure it runs under doas.
NextDoas == EnsureRunningDoas \/ DoasCurrentExe \/ DoasExec

SpecDoas == InitDoas /\ [][NextDoas]_vars

\* A program that reads keystrokes from a terminal already in raw mode and
\* classifies them.
NextKeystroke ==
    \/ GetRawKeystrokeFrom
    \/ IsEmpty \/ IsCtrlC \/ IsEsc \/ IsEscCode \/ IsEnter \/ AsChar

SpecKeystroke == Init /\ [][NextKeystroke]_vars

\* A program that owns a Password, fills it through read_line and drops it.
NextPassword ==
    \/ RlCall \/ RlIter
    \/ DropFill \/ DropCompilerFence \/ DropFence \/ DropFree

SpecPassword == Init /\ [][NextPassword]_vars

\* A program that also fills its Password through as_mut_slice.
NextPasswordDirect == NextPassword \/ SliceFill

SpecPasswordDirect == Init /\ [][NextPasswordDirect]_vars


(* ------------------------------ properties ----------------------------- *)

Last(s) == s[Len(s)]

Range(s) == {s[i] : i \in 1..Len(s)}

\* The names of the Mode Transforms.
TransformNames ==
    {"with_termios", "raw_mode", "cooked_mode", "disable_output_processing",
     "enable_output_processing", "enable_echo", "disable_echo", "password_mode",
     "disable_flow_control", "enable_flow_control", "input_timeout",
     "disable_input_timeout"}

\* The top-level call f has returned.
HasReturned(f) == pc = "idle" /\ ret.fn = f /\ ret.kind # "None"

\* The latest top-level call made the call f, with the given success.
Made(f, ok) == \E i \in 1..Len(log) : log[i] = Entry(f, ok)

\* C1: right after any reset (Term::reset itself, or the one inside keystroke
\* or prompt_for_password), whatever transforms and set calls came before,
\* the working copy equals the snapshot captured at new/save time, and when
\* the commit succeeded so do the device's attributes.
C1_ResetRoundTrip ==
    (log # <<>> /\ Last(log).fn = "reset") =>
        /\ t[2] = saved
        /\ (Last(log).ok => dev = saved)

\* A successful Term::reset that found both the device and the working copy
\* modified.
C1_Witness ==
    /\ HasReturned("reset") /\ ret.kind = "Ok"
    /\ before.dev /\ before.work
    /\ t[2] = saved /\ dev = saved

\* C2: when keystroke() returns after its raw-mode commit succeeded, a reset
\* has been attempted, on the read's success and on its failure; if that
\* reset succeeded the device has the original attributes.
C2_KeystrokeReverts ==
    (HasReturned("keystroke") /\ Made("set", TRUE)) =>
        \E i \in 1..Len(log) :
            /\ log[i].fn = "reset"
            /\ (log[i].ok => dev = saved)

\* keystroke() returned the read's error, its reset succeeded, and the device
\* is back to the original attributes.
C2_Witness ==
    /\ HasReturned("keystroke")
    /\ ret.kind = "Err" /\ ret.site = "read"
    /\ Made("set", TRUE) /\ Made("read", FALSE) /\ Made("reset", TRUE)
    /\ dev = saved /\ dev # raw_mode(saved)

\* C3: when prompt_for_password returns (Ok or Err) after password mode was
\* committed, a reset has been attempted, and the device is back to the
\* original attributes unless that reset failed.
C3_PromptReverts ==
    (HasReturned("prompt_for_password") /\ Made("set", TRUE)) =>
        \E i \in 1..Len(log) :
            /\ log[i].fn = "reset"
            /\ (log[i].ok => dev = saved)

\* C4: keystroke() and prompt_for_password return the read's error when the
\* read failed, also when the reset that follows fails; keystroke() returns
\* the Keystroke that was read when the read and the reset succeeded.
C4_ReadErrorNotMasked ==
    /\ ((HasReturned("keystroke") \/ HasReturned("prompt_for_password"))
           /\ Made("read", FALSE))
       => (ret.kind = "Err" /\ ret.site = "read")
    /\ (HasReturned("keystroke") /\ Made("read", TRUE) /\ Made("reset", TRUE))
       => (ret.kind = "Ok" /\ ret.val = local.val)

\* C5: a step of Term::set leaves both snapshots as they were, on success
\* and on failure, and on success the device has the attributes of the
\* working copy; every successful set call leaves the device equal to the
\* working copy.
C5_SetCommitsWorking ==
    [][ /\ (ret'.fn = "set" /\ ncalls' = ncalls + 1)
           => (/\ t' = t
               /\ saved' = saved
               /\ (ret'.kind = "Ok" => dev' = t[2]))
        /\ (log' # log /\ log' # <<>> /\ Last(log').fn = "set" /\ Last(log').ok)
           => (dev' = t'[2])
      ]_vars

\* A successful set of a working copy that differs from the original.
C5_Witness ==
    /\ HasReturned("set") /\ ret.kind = "Ok"
    /\ t[2] # t[1] /\ dev = t[2]

\* C6: a Mode Transform leaves the device and the original snapshot as they
\* were, and the device's attributes change only in a step whose latest
\* call is set or reset.
C6_DeviceOnlyBySetReset ==
    [][ /\ (ret'.fn \in TransformNames /\ ncalls' = ncalls + 1)
           => (dev' = dev /\ t'[1] = t[1])
        /\ (dev' # dev)
           => (log' # <<>> /\ Last(log').fn \in {"set", "reset"})
      ]_vars

\* A transform has changed the working copy and the device still has the
\* original attributes.
C6_Witness ==
    /\ pc = "idle" /\ ret.fn \in TransformNames
    /\ t[2] # t[1] /\ dev = t[1]

\* C7: the original snapshot changes only in a successful save, and always
\* equals the value captured by the latest successful new / save.
C7_OriginalImmutable ==
    [][ /\ (t'[1] # t[1]) => (ret'.fn = "save" /\ ret'.kind = "Ok")
        /\ t'[1] = saved'
      ]_vars

\* Transforms were applied and committed, and the original snapshot is still
\* the captured one.
C7_Witness ==
    /\ pc = "idle" /\ ret.fn = "with_termios"
    /\ before.dev /\ t[2] # t[1]
    /\ t[1] = saved

\* The bytes of s before its first newline.
RECURSIVE BeforeNewline(_)
BeforeNewline(s) ==
    IF s = <<>> \/ Head(s) = 10 THEN <<>>
    ELSE <<Head(s)>> \o BeforeNewline(Tail(s))

\* C8 as stated: when the source has delivered at least the usable capacity
\* without a newline, read_line returns an InvalidData error.
C8_RefusesOverlong ==
    (HasReturned("read_line") /\ Len(input) >= PASSWORD_BUFFER_LEN - 1
        /\ 10 \notin Range(input))
    => ret.kind = "Err" /\ ret.site = "InvalidData"

\* C8, amended: when the source has delivered the usable capacity without a
\* newline, read_line stops reading and returns Ok: the input is truncated
\* to the PASSWORD_BUFFER_LEN - 1 bytes delivered, which fill the buffer in
\* front of its final zero byte.
C8_TruncatesOverlong ==
    (HasReturned("read_line") /\ Len(input) >= PASSWORD_BUFFER_LEN - 1
        /\ 10 \notin Range(input))
    => /\ ret.kind = "Ok"
       /\ SubSeq(buf, 1, PASSWORD_BUFFER_LEN - 1) = input
       /\ buf[PASSWORD_BUFFER_LEN] = 0

\* read_line returned Ok on an input of letters that fills the usable
\* capacity.
C8_Witness ==
    /\ HasReturned("read_line") /\ ret.kind = "Ok"
    /\ Len(input) = PASSWORD_BUFFER_LEN - 1
    /\ Range(input) = {97}
    /\ as_bytes(buf) = input

\* C9: after read_line returns Ok on an input within capacity that contains
\* a newline (and no NUL byte), however the source split it into reads, the
\* secret is the bytes before the first newline.
C9_StopsAtFirstNewline ==
    (HasReturned("read_line") /\ ret.kind = "Ok"
        /\ 10 \in Range(input) /\ 0 \notin Range(input)
        /\ Len(input) <= PASSWORD_BUFFER_LEN - 1)
    => as_bytes(buf) = BeforeNewline(input)

\* C10: the final byte of the buffer is zero and the buffer holds a NUL, so
\* as_cstr does not panic, in every state of a program that fills its
\* Password through read_line.
C10_NulTerminated ==
    /\ buf[PASSWORD_BUFFER_LEN] = 0
    /\ as_cstr(buf) # Panic

\* A second read_line returned Ok with the usable capacity full of letters:
\* the final byte is the only NUL.
C10_Witness ==
    /\ HasReturned("read_line") /\ ret.kind = "Ok"
    /\ ncalls >= 2
    /\ Len(input) = PASSWORD_BUFFER_LEN - 1
    /\ NulPositions(buf) = {PASSWORD_BUFFER_LEN}


\* The buffer holds no non-zero byte.
AllZero(b) == \A i \in 1..Len(b) : b[i] = 0

\* C11: the slice as_mut_slice gives out is one byte shorter than the
\* buffer, so after any fill through it the final byte is still zero and
\* as_cstr does not panic.
C11_SliceKeepsNul ==
    HasReturned("as_mut_slice") =>
        /\ Len(as_mut_slice(buf)) = PASSWORD_BUFFER_LEN - 1
        /\ buf[PASSWORD_BUFFER_LEN] = 0
        /\ as_cstr(buf) # Panic

\* The steps of a drop, in order.
DropOrder == <<"fill", "compiler_fence", "fence", "dealloc">>

\* C12: from the first statement of drop on, every byte of the buffer is
\* zero; the fill, the compiler fence, the hardware fence and the release
\* happen in this order, and when the memory has been released all four
\* have happened.
C12_ZeroizedBeforeRelease ==
    ret.fn = "drop" =>
        /\ AllZero(buf)
        /\ Len(log) \in 1..4
        /\ \A i \in 1..Len(log) : log[i].fn = DropOrder[i]
        /\ (pc = "idle" <=> Len(log) = 4)
        /\ (pc = "drop_free" => Len(log) = 3)

\* A Password whose whole buffer was filled with letters, NUL-less, has been
\* dropped and released.
C12_Witness ==
    /\ HasReturned("drop")
    /\ Len(input) = PASSWORD_BUFFER_LEN /\ Range(input) = {97}
    /\ Made("dealloc", TRUE)
    /\ AllZero(buf)


\* C13: a successful save leaves both snapshots equal to the device's
\* current attributes, whatever the working copy held, and a failed save
\* leaves them as they were; a reset restores the attributes captured by the
\* latest successful save or new; a failed new leaves the program without
\* a session and a successful one holds two copies of the device's
\* attributes.
C13_SaveRecaptures ==
    [][ /\ (pc = "idle" /\ ret'.fn = "save" /\ ncalls' = ncalls + 1)
           => (/\ ret'.kind = "Ok" => (t' = <<dev, dev>> /\ saved' = dev)
               /\ ret'.kind = "Err" => (t' = t /\ saved' = saved)
               /\ dev' = dev)
        /\ (pc = "idle" /\ ret'.fn = "reset" /\ ncalls' = ncalls + 1)
           => (/\ t' = <<saved, saved>>
               /\ (ret'.kind = "Ok" => dev' = saved))
        /\ (pc = "unbound" /\ ret'.fn = "new")
           => (/\ ret'.kind = "Err" => (t' = NoSession /\ pc' = "unbound")
               /\ ret'.kind = "Ok" => (t' = <<dev, dev>> /\ pc' = "idle")
               /\ dev' = dev)
        /\ (pc = "unbound") => (t = NoSession /\ ncalls = 0)
      ]_vars

\* A successful save that found the device changed since new and the
\* working copy holding changes of its own.
C13_Witness ==
    /\ HasReturned("save") /\ ret.kind = "Ok"
    /\ before.dev /\ before.work
    /\ t = <<dev, dev>> /\ saved = dev
    /\ dev \notin TtyStates


\* The flags of tm that raw mode turns off and cooked mode does not turn
\* back on: flow control and input translation, output post-processing,
\* signal keys and extended input, character size.
Unrestored(tm) ==
    (tm.iflag \cap {"IXON", "ICRNL", "BRKINT", "INPCK", "ISTRIP", "INLCR"})
    \cup (tm.oflag \cap {"OPOST"})
    \cup (tm.lflag \cap {"IEXTEN", "ISIG"})
    \cup (tm.cflag \cap CS8)

\* C14: cooked_mode called right after raw_mode leaves a working copy with
\* flow control, input translation, output post-processing, signal keys
\* and character size off, so it differs from every original that has one
\* of them on; reset called right after raw_mode leaves the working copy
\* equal to the original, for every original.
C14_CookedNotInverse ==
    [][ /\ (pc = "idle" /\ ret.fn = "raw_mode"
              /\ ret'.fn = "cooked_mode" /\ ncalls' = ncalls + 1)
           => (/\ Unrestored(t'[2]) = {}
               /\ {"IUTF8"} \subseteq t'[2].iflag
               /\ {"ECHO", "ECHONL", "ICANON"} \subseteq t'[2].lflag
               /\ (Unrestored(t[1]) # {} => t'[2] # t'[1]))
        /\ (pc = "idle" /\ ret.fn = "raw_mode"
              /\ ret'.fn = "reset" /\ ncalls' = ncalls + 1)
           => (t'[2] = t[1] /\ t'[1] = t[1])
      ]_vars

\* raw_mode then cooked_mode on a login shell's line: flow control, output
\* post-processing, signal keys and 8-bit characters were on in the
\* original and are off in the working copy.
C14_Witness ==
    /\ pc = "idle" /\ ret.fn = "cooked_mode"
    /\ t[2] = cooked_mode(raw_mode(t[1]))
    /\ t[2] # t[1]
    /\ "IXON" \in t[1].iflag /\ "IXON" \notin t[2].iflag
    /\ "OPOST" \in t[1].oflag /\ "OPOST" \notin t[2].oflag
    /\ "ISIG" \in t[1].lflag /\ "ISIG" \notin t[2].lflag
    /\ CS8 \subseteq t[1].cflag /\ CS8 \cap t[2].cflag = {}


\* x brought into lo..hi.
Clamp(x, lo, hi) == IF x < lo THEN lo ELSE IF x > hi THEN hi ELSE x

\* The stored timeout the documentation gives for sample durations (ms).
DocumentedTimeouts ==
    (0 :> 1) @@ (99 :> 1) @@ (1500 :> 15) @@ (25500 :> 255) @@ (50000 :> 255)

\* C15: a step of input_timeout(d) changes, in the working copy only,
\* minimum-bytes-per-read to 0 and the timeout to floor(d / 100 ms) clamped
\* to 1..255, with the documented values for 0, 99, 1500, 25500 and
\* 50000 ms; the original snapshot and the device are left as they were.
C15_InputTimeoutClamps ==
    [][ (pc = "idle" /\ ret'.fn = "input_timeout" /\ ncalls' = ncalls + 1)
           => (/\ Len(arg') = 1
               /\ t'[2] = [t[2] EXCEPT !.vmin = 0,
                                       !.vtime = Clamp(arg'[1] \div 100, 1, 255)]
               /\ (arg'[1] \in DOMAIN DocumentedTimeouts
                     => t'[2].vtime = DocumentedTimeouts[arg'[1]])
               /\ t'[1] = t[1]
               /\ dev' = dev)
      ]_vars

\* input_timeout(50 s) on a working copy that had a minimum of one byte and
\* no timeout: the timeout is 255 and nothing has reached the device.
C15_Witness ==
    /\ pc = "idle" /\ ret.fn = "input_timeout"
    /\ arg = <<50000>>
    /\ t[2].vmin = 0 /\ t[2].vtime = 255
    /\ t[1].vmin = 1 /\ t[1].vtime = 0
    /\ dev = t[1]


\* The step is the call of the Mode Transform f.
TransformStep(f) == pc = "idle" /\ ret'.fn = f /\ ncalls' = ncalls + 1

\* What the output-processing and flow-control toggles do to the working
\* copy: only OPOST, only IXON.
OtherTogglesExact ==
    /\ TransformStep("disable_output_processing")
          => t'[2] = [t[2] EXCEPT !.oflag = @ \ {"OPOST"}]
    /\ TransformStep("enable_output_processing")
          => t'[2] = [t[2] EXCEPT !.oflag = @ \cup {"OPOST"}]
    /\ TransformStep("disable_flow_control")
          => t'[2] = [t[2] EXCEPT !.iflag = @ \ {"IXON"}]
    /\ TransformStep("enable_flow_control")
          => t'[2] = [t[2] EXCEPT !.iflag = @ \cup {"IXON"}]

\* C16, as stated: disable_echo / enable_echo change only the echo flag of
\* the working copy, the output-processing toggles only OPOST, the
\* flow-control toggles only IXON.
C16_TogglesOnlyNamedFlag ==
    [][ /\ TransformStep("disable_echo")
              => t'[2] = [t[2] EXCEPT !.lflag = @ \ {"ECHO"}]
        /\ TransformStep("enable_echo")
              => t'[2] = [t[2] EXCEPT !.lflag = @ \cup {"ECHO"}]
        /\ OtherTogglesExact
      ]_vars

\* C16, amended: disable_echo / enable_echo change the echo flag and the
\* newline-echo flag of the working copy and nothing else, the
\* output-processing toggles only OPOST, the flow-control toggles only IXON.
C16_EchoTogglesAlsoNewlineEcho ==
    [][ /\ TransformStep("disable_echo")
              => t'[2] = [t[2] EXCEPT !.lflag = @ \ {"ECHO", "ECHONL"}]
        /\ TransformStep("enable_echo")
              => t'[2] = [t[2] EXCEPT !.lflag = @ \cup {"ECHO", "ECHONL"}]
        /\ OtherTogglesExact
      ]_vars

\* disable_echo on a line that had newline echo on: newline echo is off in
\* the working copy.
C16_Witness ==
    /\ pc = "idle" /\ ret.fn = "disable_echo"
    /\ "ECHONL" \in t[1].lflag
    /\ t[2] = [t[1] EXCEPT !.lflag = @ \ {"ECHO", "ECHONL"}]
    /\ "ECHONL" \notin t[2].lflag


\* C17: a step of password_mode leaves a working copy with echo off,
\* newline echo on and canonical mode on, whatever it held before, and
\* changes no other flag and no control character.
C17_PasswordMode ==
    [][ TransformStep("password_mode")
           => (/\ "ECHO" \notin t'[2].lflag
               /\ "ECHONL" \in t'[2].lflag
               /\ "ICANON" \in t'[2].lflag
               /\ t'[2].lflag \ {"ECHO", "ECHONL", "ICANON"}
                     = t[2].lflag \ {"ECHO", "ECHONL", "ICANON"}
               /\ [t'[2] EXCEPT !.lflag = {}] = [t[2] EXCEPT !.lflag = {}])
      ]_vars

\* password_mode called on a working copy left in raw mode: canonical mode
\* is back on, echo is off, and output post-processing is still off.
C17_Witness ==
    /\ pc = "idle" /\ ret.fn = "password_mode"
    /\ t[2].lflag = (raw_mode(t[1]).lflag \ {"ECHO"}) \cup {"ECHONL", "ICANON"}
    /\ {"ECHO", "ICANON"} \subseteq t[1].lflag
    /\ "ECHO" \notin t[2].lflag
    /\ {"ECHONL", "ICANON"} \subseteq t[2].lflag
    /\ "OPOST" \in t[1].oflag /\ "OPOST" \notin t[2].oflag
    /\ "ISIG" \notin t[2].lflag


\* C18: get_raw_keystroke makes exactly one read; when the read delivered n
\* bytes (n <= 4) it returns Ok with a Keystroke whose first n bytes are
\* those bytes and whose bytes n..3 are zero, whatever earlier reads
\* delivered; a read of zero bytes gives an empty Keystroke; a failed read
\* gives the error.
C18_FreshZeroFilled ==
    HasReturned("get_raw_keystroke") =>
        /\ Len(log) = 1 /\ log[1].fn = "read"
        /\ (ret.kind = "Ok" <=> log[1].ok)
        /\ (ret.kind = "Ok" =>
              /\ Len(ret.val) = 4 /\ Len(input) <= 4
              /\ \A i \in 1..4 :
                    ret.val[i] = IF i <= Len(input) THEN input[i] ELSE 0
              /\ (input = <<>> => is_empty(ret.val)))

\* A later read that delivered one byte: the Keystroke holds that byte and
\* three zeros.
C18_Witness ==
    /\ HasReturned("get_raw_keystroke") /\ ret.kind = "Ok"
    /\ ncalls >= 2
    /\ input = <<65>>
    /\ ret.val = <<65, 0, 0, 0>>


\* The Unicode scalar values: 0..0x10FFFF without the surrogates.
IsScalar(c) == c \in 0..1114111 /\ c \notin 55296..57343

\* The four bytes of the integer c, below 2^24, in the byte order e.
to_ne_bytes(c, e) ==
    LET le == <<c % 256, (c \div 256) % 256, (c \div 65536) % 256, 0>>
    IN IF e = "little" THEN le ELSE <<le[4], le[3], le[2], le[1]>>

\* The integers below 2^24 whose bytes all occur in k.
IntsOver(k) ==
    {x * 65536 + y * 256 + z : x \in Range(k), y \in Range(k), z \in Range(k)}

\* The bytes of k after the first are zero.
RestZero(k) == \A i \in 2..4 : k[i] = 0

\* The classes that hold of k.
ClassesOf(k) ==
    {c \in {"empty", "interrupt", "escape", "lead_in", "enter"} :
        \/ c = "empty" /\ is_empty(k)
        \/ c = "interrupt" /\ is_ctrl_c(k)
        \/ c = "escape" /\ is_esc(k)
        \/ c = "lead_in" /\ is_esc_code(k)
        \/ c = "enter" /\ is_enter(k)}

\* C19: for every Keystroke k a read returned: is_empty answers yes iff
\* every byte is zero, is_ctrl_c iff k is 3 followed by zeros, is_esc iff k
\* is 27 followed by zeros, is_esc_code iff byte 0 is 27 and byte 1 is '[',
\* is_enter answers yes for 13 followed by zeros; at most one of the five
\* classes holds of k; as_char gives Some(c) exactly when c is a Unicode
\* scalar value whose native-endian bytes are k, and None when no scalar
\* value has these bytes, so the bytes of 'A' give Some('A').
C19_Classification ==
    /\ (HasReturned("is_empty") => (ret.val = <<1>> <=> \A i \in 1..4 : arg[i] = 0))
    /\ (HasReturned("is_ctrl_c") => (ret.val = <<1>> <=> (arg[1] = 3 /\ RestZero(arg))))
    /\ (HasReturned("is_esc") => (ret.val = <<1>> <=> (arg[1] = 27 /\ RestZero(arg))))
    /\ (HasReturned("is_esc_code") => (ret.val = <<1>> <=> (arg[1] = 27 /\ arg[2] = 91)))
    /\ (HasReturned("is_enter") => ((arg[1] = 13 /\ RestZero(arg)) => ret.val = <<1>>))
    /\ (HasReturned("as_char") =>
          LET e == log[1].fn
          IN /\ (ret.val # <<>> =>
                    /\ Len(ret.val) = 1
                    /\ IsScalar(ret.val[1])
                    /\ to_ne_bytes(ret.val[1], e) = arg)
             /\ (ret.val = <<>> =>
                    \A c \in IntsOver(arg) :
                        IsScalar(c) => to_ne_bytes(c, e) # arg)
             /\ (arg = to_ne_bytes(65, e) => ret.val = <<65>>))
    /\ (local.kind = "Ok" /\ Len(local.val) = 4 =>
          /\ Cardinality(ClassesOf(local.val)) <= 1
          /\ (is_esc(local.val) <=> (local.val[1] = 27 /\ RestZero(local.val))))

\* as_char answered Some('A') for the bytes of 'A' on a little-endian
\* target, after a read that delivered the one byte.
C19_Witness ==
    /\ HasReturned("as_char")
    /\ log[1].fn = "little"
    /\ input = <<65>> /\ arg = <<65, 0, 0, 0>>
    /\ ret.val = <<65>>
    /\ ClassesOf(arg) = {}


\* The ids the strings of UidValues stand for, for those that are a u32.
ParsedUids ==
    (<<"1", "0", "0", "0">> :> 1000) @@ (<<"0">> :> 0) @@ (<<"+", "7">> :> 7)

\* The decimal text of the unprivileged effective user id.
EuidText == (1000 :> <<"1", "0", "0", "0">>)

\* C20: while ensure_running_doas runs unprivileged, DOAS_UID holds the
\* decimal effective user id from before the exec on; the process image is
\* replaced by doas with the executable path followed by the whole argument
\* vector and with that environment; the call returns Ok only to a
\* privileged caller, with DOAS_USER and the number DOAS_UID spells, and
\* without any exec; an unprivileged caller gets at most the error of
\* current_exe; a privileged caller with DOAS_USER or DOAS_UID absent, or
\* DOAS_UID not a u32, panics.
C20_Doas ==
    /\ (pc \in {"doas_exe", "doas_exec"} =>
          /\ proc.euid # 0
          /\ proc.env.DOAS_UID = <<EuidText[proc.euid]>>
          /\ proc.execd = <<>>)
    /\ (pc = "replaced" =>
          /\ proc.euid # 0
          /\ Len(proc.execd) = 1
          /\ proc.execd[1].file = "doas"
          /\ proc.execd[1].args = <<ExePath>> \o proc.argv
          /\ proc.execd[1].env.DOAS_UID = <<EuidText[proc.euid]>>
          /\ log = <<Entry("set_var", TRUE), Entry("current_exe", TRUE),
                     Entry("execvp", TRUE)>>
          /\ ret.kind = "None")
    /\ (proc.euid = 0 => proc.execd = <<>>)
    /\ ((HasReturned("ensure_running_doas") /\ ret.kind = "Ok") =>
          /\ proc.euid = 0
          /\ proc.env.DOAS_USER # <<>> /\ proc.env.DOAS_UID # <<>>
          /\ proc.env.DOAS_UID[1] \in DOMAIN ParsedUids
          /\ ret.val = <<proc.env.DOAS_USER[1], ParsedUids[proc.env.DOAS_UID[1]]>>)
    /\ ((HasReturned("ensure_running_doas") /\ ret.kind = "Err") =>
          /\ proc.euid # 0
          /\ ret.site = "current_exe"
          /\ proc.execd = <<>>)
    /\ ((ret.fn = "ensure_running_doas" /\ proc.euid = 0
           /\ (\/ proc.env.DOAS_USER = <<>>
               \/ proc.env.DOAS_UID = <<>>
               \/ proc.env.DOAS_UID[1] \notin DOMAIN ParsedUids)) =>
          (pc = "panicked" /\ ret.kind = "Panic"))

\* An unprivileged process started with arguments has been replaced by doas
\* running its executable path and its whole argument vector, with its user
\* id in DOAS_UID.
C20_Witness ==
    /\ pc = "replaced"
    /\ proc.euid = 1000
    /\ proc.argv = <<"./prog", "-v", "file">>
    /\ proc.execd[1].args = <<ExePath, "./prog", "-v", "file">>
    /\ proc.execd[1].env.DOAS_UID = <<<<"1", "0", "0", "0">>>>


\* C21: whenever keystroke() has returned (Ok, the read's error, the reset's
\* error, or the error of the first raw-mode commit), the working copy
\* equals the original snapshot, so a plain set() that follows commits the
\* original attributes and not raw mode.
C21_KeystrokeLeavesOriginal ==
    HasReturned("keystroke") => t[2] = t[1]


\* C22: in a program whose source returns no more bytes than the slice it
\* is given, the buffer keeps its length and the index stays within
\* 0..PASSWORD_BUFFER_LEN - 1; every read of read_line is issued on a
\* non-empty slice, writes only bytes of that slice and never the final
\* byte; the index grows with every iteration that loops, so a call makes
\* at most PASSWORD_BUFFER_LEN - 1 reads; the loop is left on a read error,
\* on a zero-byte read, on a newline at the end of a chunk, or with the
\* usable capacity full.
C22_ReadLineBounded ==
    [][ /\ Len(buf') = PASSWORD_BUFFER_LEN
        /\ index' \in 0..(PASSWORD_BUFFER_LEN - 1)
        /\ (pc = "rl_read" =>
              /\ index <= PASSWORD_BUFFER_LEN - 2
              /\ Len(log) <= index
              /\ Len(log') = Len(log) + 1
              /\ Len(log') <= PASSWORD_BUFFER_LEN - 1
              /\ buf'[PASSWORD_BUFFER_LEN] = buf[PASSWORD_BUFFER_LEN]
              /\ \A i \in 1..PASSWORD_BUFFER_LEN :
                    buf'[i] # buf[i] => (i > index /\ i <= index')
              /\ (pc' = "rl_read" => index' > index)
              /\ (pc' = "idle" =>
                    \/ ret'.kind = "Err" /\ ~Last(log').ok
                    \/ index' = index
                    \/ Last(input') = 10 /\ buf'[index'] = 0
                    \/ index' = PASSWORD_BUFFER_LEN - 1))
      ]_vars

\* read_line returned after PASSWORD_BUFFER_LEN - 1 reads of one letter
\* each.
C22_Witness ==
    /\ HasReturned("read_line") /\ ret.kind = "Ok"
    /\ Len(log) = PASSWORD_BUFFER_LEN - 1
    /\ \A i \in 1..Len(log) : log[i] = Entry("read", TRUE)
    /\ index = PASSWORD_BUFFER_LEN - 1
    /\ Range(input) = {97}

====
